---- MODULE Spec2Model ----
(***************************************************************************)
(* ElasticsearchStdlibHandler (src/es_log_handler.py): a logging handler   *)
(* that ships every record, one by one, to an Elasticsearch index.         *)
(*                                                                         *)
(* Each producer is one python application constructing one handler        *)
(* against the same backend index.  Producers only share the index, and    *)
(* only __init__/init_es touch it, so every producer runs the constructor  *)
(* (interleaved at the backend calls) while the handler methods            *)
(* emit/flush/close are exercised on the handler of one application, App.  *)
(***************************************************************************)
EXTENDS Naturals, Sequences, FiniteSets

\* ------------------------------------------------------------------ bounds
NumProducers == 2
MaxOps == 2

Producers == 1..NumProducers
\* the application whose handler is logged to and closed
App == CHOOSE p \in Producers : \A q \in Producers : p <= q

\* ------------------------------------------------------------ vocabulary
\* values of self.es
Unset == "unset"
Live == "Elasticsearch"
None == "None"

RequiredKeys == {"es_endpoint", "es_user", "es_pw", "es_index"}

\* What the environment makes of one backend call: "ok", a silent failure
\* ("unreachable": exists() answers False for an unknown host, note 1 of
\* init_es), or the exception the client raises.
ExistsOutcomes ==
    {"ok", "unreachable", "AuthenticationException", "AuthorizationException",
     "ConnectionError"}
CreateOutcomes == {"ok", "AuthorizationException", "NotFoundError", "RequestError"}
SubmitOutcomes == {"ok", "ConnectionError", "RequestError"}
CloseOutcomes == {"ok", "AttributeError", "ConnectionError"}

\* A log record, as far as the handler can tell records apart: whether the
\* formatter can encode it (record.getMessage() raises TypeError on a
\* message whose arguments do not fit its format string).
Records == [formattable : BOOLEAN]

VARIABLES
    pc,           \* pc[p]: where producer p's constructor stands
    es,           \* es[p]: self.es of p's handler
    indexExists,  \* the backend: whether the target index exists
    calls,        \* calls[p]: the backend calls p's handler made
    console,      \* console[p]: what the module logger `log` wrote to stdout
    ops,          \* ops[p]: the handler methods called on p's handler
    logger,       \* the application's logger: its level, its handlers in the
                  \* order of addHandler, the level given to the sink
    logged,       \* the log calls the application made on its logger
    thread        \* where the callers of a concurrent emit and close stand

vars == <<pc, es, indexExists, calls, console, ops, logger, logged, thread>>

\* ------------------------------------------------------------ the backend
\* es.indices.exists(index): the answer, or the exception raised.
BackendExists(outcome, exists) ==
    IF outcome = "ok" THEN [raises |-> "none", value |-> exists]
    ELSE IF outcome = "unreachable" THEN [raises |-> "none", value |-> FALSE]
    ELSE [raises |-> outcome, value |-> FALSE]

\* es.indices.create(index): creates the index, ConflictError when another
\* producer created it first (note 2 of init_es), or the exception raised.
BackendCreate(outcome, exists) ==
    IF outcome = "ok"
    THEN IF exists THEN [raises |-> "ConflictError", exists |-> TRUE]
                   ELSE [raises |-> "none", exists |-> TRUE]
    ELSE [raises |-> outcome, exists |-> exists]

\* ------------------------------------------------------------ __init__
\* (mutant) the constructor reads only three of the four keys.
KwargsCompleteForgetsIndex(kwargs) == {"es_endpoint", "es_user", "es_pw"} \subseteq kwargs

\* kwargs[...] of the four required keys: KeyError -> ValueError.
KwargsComplete(kwargs) == RequiredKeys \subseteq kwargs

Construct(p, kwargs) ==
    /\ pc[p] = "new"
    /\ IF KwargsComplete(kwargs)
       THEN /\ es' = [es EXCEPT ![p] = Live]
            /\ pc' = [pc EXCEPT ![p] = "init_es"]
       ELSE /\ pc' = [pc EXCEPT ![p] = "ValueError"]
            /\ UNCHANGED es
    /\ UNCHANGED <<indexExists, calls, console, ops>>

\* ------------------------------------------------------------ logs
\* One backend call: the method, the handler call it was made in (0: the
\* constructor; i: the i-th call of ops), what the environment made of it,
\* and what the caller saw (the value returned or the exception raised).
Call(method, at, outcome, result) ==
    [method |-> method, at |-> at, outcome |-> outcome, result |-> result]

\* One line of the module logger.
Report(level, msg, at) == [level |-> level, msg |-> msg, at |-> at]

BoolStr(b) == IF b THEN "True" ELSE "False"

\* ------------------------------------------------------------ init_es
\* (mutant) the generic clause reports but forgets `self.es = None`.
ExistsHandlerKeepsEs(exc) ==
    CASE exc = "AuthenticationException" ->
           [level |-> "CRITICAL", msg |-> "authn_failed", disable |-> TRUE]
      [] exc = "AuthorizationException" ->
           [level |-> "CRITICAL", msg |-> "unauthorized", disable |-> TRUE]
      [] OTHER ->
           [level |-> "CRITICAL", msg |-> "unhandled", disable |-> FALSE]

\* (mutant) the AuthorizationException clause reports with log.warning.
ExistsHandlerAuthzWarns(exc) ==
    CASE exc = "AuthenticationException" ->
           [level |-> "CRITICAL", msg |-> "authn_failed", disable |-> TRUE]
      [] exc = "AuthorizationException" ->
           [level |-> "WARNING", msg |-> "unauthorized", disable |-> TRUE]
      [] OTHER ->
           [level |-> "CRITICAL", msg |-> "unhandled", disable |-> TRUE]

\* The except clauses around es.indices.exists().
ExistsHandler(exc) ==
    CASE exc = "AuthenticationException" ->
           [level |-> "CRITICAL", msg |-> "authn_failed", disable |-> TRUE]
      [] exc = "AuthorizationException" ->
           [level |-> "CRITICAL", msg |-> "unauthorized", disable |-> TRUE]
      [] OTHER ->
           [level |-> "CRITICAL", msg |-> "unhandled", disable |-> TRUE]

\* (mutant) no `except ConflictError` clause: a conflict is an unhandled error.
CreateHandlerNoConflictClause(exc) ==
    CASE exc = "AuthorizationException" ->
           [level |-> "CRITICAL", msg |-> "unauthorized", disable |-> TRUE]
      [] exc = "NotFoundError" ->
           [level |-> "CRITICAL", msg |-> "host_not_found", disable |-> TRUE]
      [] OTHER ->
           [level |-> "CRITICAL", msg |-> "unhandled", disable |-> TRUE]

\* (mutant) the NotFoundError clause reports but forgets `self.es = None`.
CreateHandlerNotFoundKeepsEs(exc) ==
    CASE exc = "AuthorizationException" ->
           [level |-> "CRITICAL", msg |-> "unauthorized", disable |-> TRUE]
      [] exc = "NotFoundError" ->
           [level |-> "CRITICAL", msg |-> "host_not_found", disable |-> FALSE]
      [] exc = "ConflictError" ->
           [level |-> "WARNING", msg |-> "index_exists", disable |-> FALSE]
      [] OTHER ->
           [level |-> "CRITICAL", msg |-> "unhandled", disable |-> TRUE]

\* (mutant) the ConflictError clause warns and then gives the connection up.
CreateHandlerConflictDisables(exc) ==
    CASE exc = "AuthorizationException" ->
           [level |-> "CRITICAL", msg |-> "unauthorized", disable |-> TRUE]
      [] exc = "NotFoundError" ->
           [level |-> "CRITICAL", msg |-> "host_not_found", disable |-> TRUE]
      [] exc = "ConflictError" ->
           [level |-> "WARNING", msg |-> "index_exists", disable |-> TRUE]
      [] OTHER ->
           [level |-> "CRITICAL", msg |-> "unhandled", disable |-> TRUE]

\* The except clauses around es.indices.create().
CreateHandler(exc) ==
    CASE exc = "AuthorizationException" ->
           [level |-> "CRITICAL", msg |-> "unauthorized", disable |-> TRUE]
      [] exc = "NotFoundError" ->
           [level |-> "CRITICAL", msg |-> "host_not_found", disable |-> TRUE]
      [] exc = "ConflictError" ->
           [level |-> "WARNING", msg |-> "index_exists", disable |-> FALSE]
      [] OTHER ->
           [level |-> "CRITICAL", msg |-> "unhandled", disable |-> TRUE]

\* (mutant) `if index_exists` instead of `if not index_exists`.
InitEsExistsInverted(p, outcome) ==
    /\ pc[p] = "init_es"
    /\ LET r == BackendExists(outcome, indexExists)
           h == ExistsHandler(r.raises)
       IN  IF r.raises # "none"
           THEN /\ calls' = [calls EXCEPT ![p] =
                                Append(@, Call("exists", 0, outcome, r.raises))]
                /\ console' = [console EXCEPT ![p] =
                                  Append(@, Report(h.level, h.msg, 0))]
                /\ es' = [es EXCEPT ![p] = IF h.disable THEN None ELSE @]
                /\ pc' = [pc EXCEPT ![p] = "ready"]
           ELSE /\ calls' = [calls EXCEPT ![p] =
                                Append(@, Call("exists", 0, outcome, BoolStr(r.value)))]
                /\ pc' = [pc EXCEPT ![p] = IF r.value THEN "create" ELSE "ready"]
                /\ UNCHANGED <<console, es>>
    /\ UNCHANGED <<indexExists, ops>>

\* init_es up to and including `if not index_exists`; when no create is
\* needed the constructor finishes (super().__init__, the formatter).
InitEsExists(p, outcome) ==
    /\ pc[p] = "init_es"
    /\ LET r == BackendExists(outcome, indexExists)
           h == ExistsHandler(r.raises)
       IN  IF r.raises # "none"
           THEN /\ calls' = [calls EXCEPT ![p] =
                                Append(@, Call("exists", 0, outcome, r.raises))]
                /\ console' = [console EXCEPT ![p] =
                                  Append(@, Report(h.level, h.msg, 0))]
                /\ es' = [es EXCEPT ![p] = IF h.disable THEN None ELSE @]
                /\ pc' = [pc EXCEPT ![p] = "ready"]
           ELSE /\ calls' = [calls EXCEPT ![p] =
                                Append(@, Call("exists", 0, outcome, BoolStr(r.value)))]
                /\ pc' = [pc EXCEPT ![p] = IF r.value THEN "ready" ELSE "create"]
                /\ UNCHANGED <<console, es>>
    /\ UNCHANGED <<indexExists, ops>>

\* The create branch of init_es, then the rest of the constructor.
InitEsCreate(p, outcome) ==
    /\ pc[p] = "create"
    /\ LET r == BackendCreate(outcome, indexExists)
           h == CreateHandler(r.raises)
       IN  /\ indexExists' = r.exists
           /\ pc' = [pc EXCEPT ![p] = "ready"]
           /\ IF r.raises # "none"
              THEN /\ calls' = [calls EXCEPT ![p] =
                                   Append(@, Call("create", 0, outcome, r.raises))]
                   /\ console' = [console EXCEPT ![p] =
                                     Append(@, Report(h.level, h.msg, 0))]
                   /\ es' = [es EXCEPT ![p] = IF h.disable THEN None ELSE @]
              ELSE /\ calls' = [calls EXCEPT ![p] =
                                   Append(@, Call("create", 0, outcome, "None"))]
                   /\ UNCHANGED <<console, es>>
    /\ UNCHANGED ops

\* ------------------------------------------------------------ the handler
\* One call of a handler method: the method, the record it was given
\* (formattable; TRUE for flush and close, which take none), self.es before
\* and after, and the exception that left the method ("none": it returned).
Op(op, formattable, pre, post, raised) ==
    [op |-> op, formattable |-> formattable, pre |-> pre, post |-> post,
     raised |-> raised]

CanCall(p) == p = App /\ pc[p] = "ready" /\ Len(ops[p]) < MaxOps

\* ------------------------------------------------------------ emit
\* (mutant) emit without the `is not None` check.
EmitGuardAlways(e) == TRUE

\* `if self.es is not None`
EmitGuard(e) == e # None

\* self.formatter.format_to_ecs(record): the document, or the exception the
\* formatter raises on a record it cannot encode.
FormatToEcs(rec) ==
    IF rec.formattable THEN [raises |-> "none", document |-> "ecs"]
    ELSE [raises |-> "TypeError", document |-> "none"]

\* (mutant) a failed submit gives the connection up.
SubmitHandlerDisables(exc) ==
    [caught |-> TRUE, level |-> "CRITICAL", msg |-> "emit_unhandled",
     disable |-> TRUE]

\* (mutant) the failure is reported with log.warning.
SubmitHandlerWarns(exc) ==
    [caught |-> TRUE, level |-> "WARNING", msg |-> "emit_unhandled",
     disable |-> FALSE]

\* `except Exception as e` around es.index(): every error the client raises
\* is caught and reported; self.es is left alone.
SubmitHandler(exc) ==
    [caught |-> TRUE, level |-> "CRITICAL", msg |-> "emit_unhandled",
     disable |-> FALSE]

\* (mutant) a failed submit is tried once more before it is reported.
EmitRetries(p, rec, outcome) ==
    /\ CanCall(p)
    /\ LET at == Len(ops[p]) + 1
           doc == FormatToEcs(rec)
           h == SubmitHandler(outcome)
       IN  IF ~EmitGuard(es[p])
           THEN /\ ops' = [ops EXCEPT ![p] =
                              Append(@, Op("emit", rec.formattable, es[p], es[p], "none"))]
                /\ UNCHANGED <<es, calls, console>>
           ELSE IF doc.raises # "none"
           THEN /\ ops' = [ops EXCEPT ![p] =
                              Append(@, Op("emit", rec.formattable, es[p], es[p], doc.raises))]
                /\ UNCHANGED <<es, calls, console>>
           ELSE IF outcome = "ok"
           THEN /\ calls' = [calls EXCEPT ![p] =
                                Append(@, Call("index", at, outcome, "None"))]
                /\ ops' = [ops EXCEPT ![p] =
                              Append(@, Op("emit", rec.formattable, es[p], es[p], "none"))]
                /\ UNCHANGED <<es, console>>
           ELSE /\ calls' = [calls EXCEPT ![p] =
                                Append(Append(@, Call("index", at, outcome, outcome)),
                                       Call("index", at, outcome, outcome))]
                /\ console' = [console EXCEPT ![p] = Append(@, Report(h.level, h.msg, at))]
                /\ ops' = [ops EXCEPT ![p] =
                              Append(@, Op("emit", rec.formattable, es[p], es[p], "none"))]
                /\ UNCHANGED es
    /\ UNCHANGED <<pc, indexExists>>

Emit(p, rec, outcome) ==
    /\ CanCall(p)
    /\ LET at == Len(ops[p]) + 1
           doc == FormatToEcs(rec)
           h == SubmitHandler(outcome)
       IN  IF ~EmitGuard(es[p])
           THEN /\ ops' = [ops EXCEPT ![p] =
                              Append(@, Op("emit", rec.formattable, es[p], es[p], "none"))]
                /\ UNCHANGED <<es, calls, console>>
           ELSE IF doc.raises # "none"
           THEN \* raised outside the try: it leaves emit
                /\ ops' = [ops EXCEPT ![p] =
                              Append(@, Op("emit", rec.formattable, es[p], es[p], doc.raises))]
                /\ UNCHANGED <<es, calls, console>>
           ELSE IF outcome = "ok"
           THEN /\ calls' = [calls EXCEPT ![p] =
                                Append(@, Call("index", at, outcome, "None"))]
                /\ ops' = [ops EXCEPT ![p] =
                              Append(@, Op("emit", rec.formattable, es[p], es[p], "none"))]
                /\ UNCHANGED <<es, console>>
           ELSE /\ calls' = [calls EXCEPT ![p] =
                                Append(@, Call("index", at, outcome, outcome))]
                /\ console' = [console EXCEPT ![p] =
                                  IF h.caught THEN Append(@, Report(h.level, h.msg, at))
                                  ELSE @]
                /\ es' = [es EXCEPT ![p] = IF h.caught /\ h.disable THEN None ELSE @]
                /\ ops' = [ops EXCEPT ![p] =
                              Append(@, Op("emit", rec.formattable, es[p],
                                           es'[p], IF h.caught THEN "none" ELSE outcome))]
    /\ UNCHANGED <<pc, indexExists>>

\* ------------------------------------------------------------ flush
\* (mutant) a flush that builds a new client when there is none.
FlushReconnects(p) ==
    /\ CanCall(p)
    /\ ops' = [ops EXCEPT ![p] = Append(@, Op("flush", TRUE, es[p], Live, "none"))]
    /\ es' = [es EXCEPT ![p] = Live]
    /\ UNCHANGED <<pc, indexExists, calls, console>>

\* (mutant) a flush that closes the connection.
FlushCloses(p) ==
    /\ CanCall(p)
    /\ IF es[p] = Live
       THEN /\ calls' = [calls EXCEPT ![p] =
                            Append(@, Call("close", Len(ops[p]) + 1, "ok", "None"))]
            /\ es' = [es EXCEPT ![p] = None]
       ELSE UNCHANGED <<calls, es>>
    /\ ops' = [ops EXCEPT ![p] = Append(@, Op("flush", TRUE, es[p], es'[p], "none"))]
    /\ UNCHANGED <<pc, indexExists, console>>

Flush(p) ==
    /\ CanCall(p)
    /\ ops' = [ops EXCEPT ![p] = Append(@, Op("flush", TRUE, es[p], es[p], "none"))]
    /\ UNCHANGED <<pc, es, indexExists, calls, console>>

\* ------------------------------------------------------------ close
\* (mutant) close without the `is not None` check.
CloseGuardAlways(e) == TRUE

\* `if self.es is not None`
CloseGuard(e) == e # None

\* `except AttributeError: pass`
CloseCatches(exc) == exc = "AttributeError"

Close(p, outcome) ==
    /\ CanCall(p)
    /\ LET at == Len(ops[p]) + 1
       IN  IF ~CloseGuard(es[p])
           THEN /\ ops' = [ops EXCEPT ![p] =
                              Append(@, Op("close", TRUE, es[p], es[p], "none"))]
                /\ UNCHANGED <<es, calls>>
           ELSE IF outcome = "ok" \/ CloseCatches(outcome)
           THEN /\ calls' = [calls EXCEPT ![p] =
                                Append(@, Call("close", at, outcome,
                                               IF outcome = "ok" THEN "None" ELSE outcome))]
                /\ es' = [es EXCEPT ![p] = None]
                /\ ops' = [ops EXCEPT ![p] =
                              Append(@, Op("close", TRUE, es[p], None, "none"))]
           ELSE \* not caught: `self.es = None` is never reached
                /\ calls' = [calls EXCEPT ![p] =
                                Append(@, Call("close", at, outcome, outcome))]
                /\ ops' = [ops EXCEPT ![p] =
                              Append(@, Op("close", TRUE, es[p], es[p], outcome))]
                /\ UNCHANGED es
    /\ UNCHANGED <<pc, indexExists, console>>

\* ------------------------------------------------------------ the logger
\* logging's levels and their numeric order
Severities == {"DEBUG", "INFO", "WARNING", "ERROR", "CRITICAL"}

LevelNo(l) ==
    CASE l = "NOTSET" -> 0
      [] l = "DEBUG" -> 10
      [] l = "INFO" -> 20
      [] l = "WARNING" -> 30
      [] l = "ERROR" -> 40
      [] l = "CRITICAL" -> 50

\* The logger of the example: level DEBUG, the stdout handler added first,
\* then the sink, constructed with the default level.
ExampleLogger ==
    [level |-> "DEBUG", handlers |-> <<"console", "es">>, sinkLevel |-> "NOTSET"]

\* The loggers an application can set up around the sink.
Loggers ==
    [level : {"DEBUG", "WARNING"},
     handlers : {<<"console", "es">>, <<"es", "console">>},
     sinkLevel : {"NOTSET", "WARNING", "CRITICAL"}]

\* (mutant) `super().__init__()` without the level.
HandlerLevelIgnored(level) == "NOTSET"

\* `super().__init__(level=level)`: the level the handler filters with.
HandlerLevel(level) == level

\* Logger.isEnabledFor, as log.info and its siblings consult it.
IsEnabledFor(sev) == LevelNo(sev) >= LevelNo(logger.level)

\* Logger.callHandlers: `if record.levelno >= hdlr.level`.
SinkAccepts(sev) == LevelNo(sev) >= LevelNo(HandlerLevel(logger.sinkLevel))

\* The stdout StreamHandler: it writes the formatted line, and a record it
\* cannot format goes to handleError (nothing on stdout, nothing raised).
ConsoleLines(rec) == IF rec.formattable THEN 1 ELSE 0

\* One log call: the record, self.es when it was made, the emit it led to
\* (its index in ops; 0: the sink's emit was not called), the handlers that
\* were handed the record, those that raised, the lines the stdout handler
\* wrote for it, and the exception that left the log call.
Logged(sev, rec, e, at, delivered, threw, lines, raised) ==
    [severity |-> sev, formattable |-> rec.formattable, es |-> e, at |-> at,
     delivered |-> delivered, threw |-> threw, lines |-> lines, raised |-> raised]

\* the calls the application made: its log calls and the handler methods it
\* called itself
AppCalls(p) ==
    Len(logged) + Len(ops[p]) - Cardinality({j \in DOMAIN logged : logged[j].at > 0})

\* log.debug/info/...: the record goes to the handlers in the order they
\* were added; an exception leaving a handler leaves the log call, and the
\* handlers after it are not called.
Log(p, sev, rec, outcome) ==
    /\ CanCall(p)
    /\ AppCalls(p) < MaxOps
    /\ LET sinkRuns == IsEnabledFor(sev) /\ SinkAccepts(sev)
       IN  /\ IF sinkRuns THEN Emit(p, rec, outcome)
              ELSE UNCHANGED <<pc, es, indexExists, calls, console, ops>>
           /\ LET raised == IF sinkRuns THEN ops'[p][Len(ops'[p])].raised ELSE "none"
                  consoleRuns ==
                      /\ IsEnabledFor(sev)
                      /\ logger.handlers[1] = "console" \/ raised = "none"
              IN  logged' = Append(logged,
                      Logged(sev, rec, es[p],
                             IF sinkRuns THEN Len(ops'[p]) ELSE 0,
                             (IF sinkRuns THEN {"es"} ELSE {})
                                 \cup (IF consoleRuns THEN {"console"} ELSE {}),
                             IF raised = "none" THEN {} ELSE {"es"},
                             IF consoleRuns THEN ConsoleLines(rec) ELSE 0,
                             raised))
    /\ UNCHANGED <<logger, thread>>

\* the handler methods called directly, one after the other, leave the
\* logger alone
Direct == UNCHANGED <<logger, logged, thread>>

\* ------------------------------------------------------------ two callers
\* One caller in emit and one in close, on the same handler. Neither method
\* takes a lock, so the callers interleave between the reads and writes of
\* self.es; each records the ops entry of the call it is in.
Idle == [emit |-> "idle", emitAt |-> 0, close |-> "idle", closeAt |-> 0]

\* emit, `if self.es is not None` and the formatting of the record.
EmitBegin(p, rec) ==
    /\ CanCall(p)
    /\ thread.emit = "idle"
    /\ LET doc == FormatToEcs(rec)
       IN  IF ~EmitGuard(es[p])
           THEN /\ ops' = [ops EXCEPT ![p] =
                              Append(@, Op("emit", rec.formattable, es[p], es[p], "none"))]
                /\ UNCHANGED thread
           ELSE IF doc.raises # "none"
           THEN /\ ops' = [ops EXCEPT ![p] =
                              Append(@, Op("emit", rec.formattable, es[p], es[p], doc.raises))]
                /\ UNCHANGED thread
           ELSE /\ ops' = [ops EXCEPT ![p] =
                              Append(@, Op("emit", rec.formattable, es[p], es[p], "none"))]
                /\ thread' = [thread EXCEPT !.emit = "submit", !.emitAt = Len(ops'[p])]
    /\ UNCHANGED <<pc, es, indexExists, calls, console, logger, logged>>

\* emit, the try block: self.es is read again for `self.es.index(...)`; on
\* None the attribute lookup raises AttributeError, which the except clause
\* reports like a failed submit.
EmitSubmit(p, outcome) ==
    /\ thread.emit = "submit"
    /\ LET at == thread.emitAt
           exc == IF es[p] = None THEN "AttributeError" ELSE outcome
           h == SubmitHandler(exc)
       IN  /\ calls' = [calls EXCEPT ![p] =
                           IF es[p] = None THEN @
                           ELSE Append(@, Call("index", at, outcome,
                                               IF outcome = "ok" THEN "None" ELSE outcome))]
           /\ IF exc = "ok"
              THEN UNCHANGED <<console, es, ops>>
              ELSE /\ console' = [console EXCEPT ![p] =
                                     IF h.caught THEN Append(@, Report(h.level, h.msg, at))
                                     ELSE @]
                   /\ es' = [es EXCEPT ![p] = IF h.caught /\ h.disable THEN None ELSE @]
                   /\ ops' = [ops EXCEPT ![p][at].raised =
                                 IF h.caught THEN "none" ELSE exc]
    /\ thread' = [thread EXCEPT !.emit = "idle"]
    /\ UNCHANGED <<pc, indexExists, logger, logged>>

\* close, `if self.es is not None`.
CloseBegin(p) ==
    /\ CanCall(p)
    /\ thread.close = "idle"
    /\ ops' = [ops EXCEPT ![p] = Append(@, Op("close", TRUE, es[p], es[p], "none"))]
    /\ thread' = IF CloseGuard(es[p])
                 THEN [thread EXCEPT !.close = "call", !.closeAt = Len(ops'[p])]
                 ELSE thread
    /\ UNCHANGED <<pc, es, indexExists, calls, console, logger, logged>>

\* close, `self.es.close()` in its try block.
CloseCall(p, outcome) ==
    /\ thread.close = "call"
    /\ LET at == thread.closeAt
       IN  /\ calls' = [calls EXCEPT ![p] =
                           Append(@, Call("close", at, outcome,
                                          IF outcome = "ok" THEN "None" ELSE outcome))]
           /\ IF outcome = "ok" \/ CloseCatches(outcome)
              THEN /\ thread' = [thread EXCEPT !.close = "assign"]
                   /\ UNCHANGED ops
              ELSE /\ thread' = [thread EXCEPT !.close = "idle"]
                   /\ ops' = [ops EXCEPT ![p][at].raised = outcome]
    /\ UNCHANGED <<pc, es, indexExists, console, logger, logged>>

\* close, `self.es = None`.
CloseAssign(p) ==
    /\ thread.close = "assign"
    /\ es' = [es EXCEPT ![p] = None]
    /\ ops' = [ops EXCEPT ![p][thread.closeAt].post = None]
    /\ thread' = [thread EXCEPT !.close = "idle"]
    /\ UNCHANGED <<pc, indexExists, calls, console, logger, logged>>

Init ==
    /\ pc = [p \in Producers |-> "new"]
    /\ es = [p \in Producers |-> Unset]
    /\ indexExists \in BOOLEAN
    /\ calls = [p \in Producers |-> <<>>]
    /\ console = [p \in Producers |-> <<>>]
    /\ ops = [p \in Producers |-> <<>>]
    /\ logger = ExampleLogger
    /\ logged = <<>>
    /\ thread = Idle

\* The shape of the state: self.es per handler, the backend index, and the
\* logs of backend calls, console lines and handler calls.
TypeOK ==
    /\ pc \in [Producers -> {"new", "ValueError", "init_es", "create", "ready"}]
    /\ es \in [Producers -> {Unset, Live, None}]
    /\ indexExists \in BOOLEAN
    /\ \A p \in Producers :
          /\ \A k \in DOMAIN calls[p] :
                /\ calls[p][k].method \in {"exists", "create", "index", "close"}
                /\ calls[p][k].at \in 0..Len(ops[p])
          /\ \A k \in DOMAIN console[p] :
                /\ console[p][k].level \in {"CRITICAL", "WARNING"}
                /\ console[p][k].at \in 0..Len(ops[p])
          /\ \A i \in DOMAIN ops[p] :
                /\ ops[p][i].op \in {"emit", "flush", "close"}
                /\ ops[p][i].pre \in {Live, None}
                /\ ops[p][i].post \in {Live, None}
          /\ Len(ops[p]) <= MaxOps
          /\ (pc[p] \in {"new", "ValueError"}) = (es[p] = Unset)
    /\ logger \in Loggers \cup {ExampleLogger}
    /\ \A j \in DOMAIN logged :
          /\ logged[j].severity \in Severities
          /\ logged[j].at \in 0..Len(ops[App])
          /\ logged[j].delivered \subseteq {"console", "es"}
          /\ logged[j].lines \in {0, 1}
    /\ thread.emit \in {"idle", "submit"}
    /\ thread.close \in {"idle", "call", "assign"}
    /\ thread.emitAt \in 0..Len(ops[App])
    /\ thread.closeAt \in 0..Len(ops[App])

Next ==
    \/ \E p \in Producers, kwargs \in SUBSET RequiredKeys :
          Construct(p, kwargs) /\ Direct
    \/ \E p \in Producers, outcome \in ExistsOutcomes :
          InitEsExists(p, outcome) /\ Direct
    \/ \E p \in Producers, outcome \in CreateOutcomes :
          InitEsCreate(p, outcome) /\ Direct
    \/ \E p \in Producers, rec \in Records, outcome \in SubmitOutcomes :
          Emit(p, rec, outcome) /\ Direct
    \/ \E p \in Producers : Flush(p) /\ Direct
    \/ \E p \in Producers, outcome \in CloseOutcomes : Close(p, outcome) /\ Direct

Spec == Init /\ [][Next]_vars

\* ------------------------------------------------------------ logging
\* The application sets up its logger around the sink, constructs the sink,
\* and then logs through the logger and closes the sink.
LogInit ==
    /\ pc = [p \in Producers |-> "new"]
    /\ es = [p \in Producers |-> Unset]
    /\ indexExists \in BOOLEAN
    /\ calls = [p \in Producers |-> <<>>]
    /\ console = [p \in Producers |-> <<>>]
    /\ ops = [p \in Producers |-> <<>>]
    /\ logger \in Loggers
    /\ logged = <<>>
    /\ thread = Idle

LogNext ==
    \/ Construct(App, RequiredKeys) /\ Direct
    \/ \E outcome \in ExistsOutcomes : InitEsExists(App, outcome) /\ Direct
    \/ \E outcome \in CreateOutcomes : InitEsCreate(App, outcome) /\ Direct
    \/ \E sev \in Severities, rec \in Records, outcome \in SubmitOutcomes :
          Log(App, sev, rec, outcome)
    \/ \E outcome \in CloseOutcomes :
          AppCalls(App) < MaxOps /\ Close(App, outcome) /\ Direct

LogSpec == LogInit /\ [][LogNext]_vars

\* ------------------------------------------------------------ concurrency
\* The sink is constructed as in the example; then one caller emits records
\* the formatter encodes and another closes, against a backend whose close
\* succeeds or is not supported.
ConcNext ==
    \/ Construct(App, RequiredKeys) /\ Direct
    \/ \E outcome \in ExistsOutcomes : InitEsExists(App, outcome) /\ Direct
    \/ \E outcome \in CreateOutcomes : InitEsCreate(App, outcome) /\ Direct
    \/ EmitBegin(App, [formattable |-> TRUE])
    \/ \E outcome \in SubmitOutcomes : EmitSubmit(App, outcome)
    \/ CloseBegin(App)
    \/ \E outcome \in {"ok", "AttributeError"} : CloseCall(App, outcome)
    \/ CloseAssign(App)

ConcSpec == Init /\ [][ConcNext]_vars

\* ------------------------------------------------------------ reading the logs
Indices(p) == DOMAIN ops[p]

\* the backend calls of the given method made in p's i-th handler call
CallsAt(p, i, method) ==
    {k \in DOMAIN calls[p] : calls[p][k].at = i /\ calls[p][k].method = method}

AllCallsAt(p, i) == {k \in DOMAIN calls[p] : calls[p][k].at = i}

\* the lines of the given level written during p's i-th handler call
ReportsAt(p, i, level) ==
    {k \in DOMAIN console[p] : console[p][k].at = i /\ console[p][k].level = level}

AllReportsAt(p, i) == {k \in DOMAIN console[p] : console[p][k].at = i}

\* self.es as the constructor left it
EsAtConstruction(p) == IF ops[p] = <<>> THEN es[p] ELSE ops[p][1].pre

\* self.es after p's i-th handler call is the state the next call starts in
\* (or the current state)
EsAfter(p, i) == IF i = Len(ops[p]) THEN es[p] ELSE ops[p][i + 1].pre

ExistsRaised(p) ==
    \E k \in CallsAt(p, 0, "exists") : calls[p][k].result \notin {"True", "False"}

ExistsReturnedFalse(p) ==
    \E k \in CallsAt(p, 0, "exists") : calls[p][k].result = "False"

CreateRaised(p, excs) ==
    \E k \in CallsAt(p, 0, "create") : calls[p][k].result \in excs

CreateRaisedNoConflict(p) ==
    \E k \in CallsAt(p, 0, "create") : calls[p][k].result \notin {"None", "ConflictError"}

SubmitFailedAt(p, i) ==
    \E k \in CallsAt(p, i, "index") : calls[p][k].result # "None"

\* ------------------------------------------------------------ claims

\* C1: emit never lets an exception out, whatever the record and whatever
\* fails while handling it (the encoding step included).
C1_EmitNeverRaises ==
    \A p \in Producers : \A i \in Indices(p) :
        ops[p][i].op = "emit" => ops[p][i].raised = "none"

C3_DisabledEmitIsNoOp ==
    \A p \in Producers : \A i \in Indices(p) :
        (ops[p][i].op = "emit" /\ ops[p][i].pre = None) =>
            /\ AllCallsAt(p, i) = {}
            /\ AllReportsAt(p, i) = {}
            /\ ops[p][i].raised = "none"
            /\ ops[p][i].post = None
            /\ EsAfter(p, i) = None

C3_Witness ==
    /\ Len(ops[App]) >= 2
    /\ ops[App][1].op = "close" /\ ops[App][1].pre = Live
    /\ ops[App][2].op = "emit" /\ ops[App][2].pre = None
    /\ ops[App][2].formattable

\* C4: once self.es is None it stays None: no emit, flush or close gives the
\* sink a connection again.
C4_DisabledIsTerminal ==
    [][\A p \in Producers : es[p] = None => es'[p] = None]_vars

C4_Witness ==
    /\ Len(ops[App]) >= 2
    /\ ops[App][1].pre = None
    /\ \E i \in Indices(App) : ops[App][i].op = "flush"
    /\ es[App] = None

\* C5: when the existence check raises, the constructor returns (it does not
\* raise), the sink is disabled, exactly one CRITICAL line was written and
\* create was never called.
C5_ExistsFailureDisables ==
    \A p \in Producers :
        ExistsRaised(p) =>
            /\ pc[p] = "ready"
            /\ EsAtConstruction(p) = None
            /\ Cardinality(ReportsAt(p, 0, "CRITICAL")) = 1
            /\ CallsAt(p, 0, "create") = {}

C5_Witness ==
    /\ \E k \in CallsAt(App, 0, "exists") : calls[App][k].result = "ConnectionError"
    /\ pc[App] = "ready"

\* C6: when the existence check answers false and create raises anything but
\* ConflictError, the constructor returns, the sink is disabled, exactly one
\* CRITICAL line and no WARNING line was written.
C6_CreateFailureDisables ==
    \A p \in Producers :
        (ExistsReturnedFalse(p) /\ CreateRaisedNoConflict(p)) =>
            /\ pc[p] = "ready"
            /\ EsAtConstruction(p) = None
            /\ Cardinality(ReportsAt(p, 0, "CRITICAL")) = 1
            /\ ReportsAt(p, 0, "WARNING") = {}

C6_Witness ==
    /\ ExistsReturnedFalse(App)
    /\ CreateRaised(App, {"NotFoundError"})
    /\ pc[App] = "ready"

\* C7: when the existence check answers false and create raises
\* ConflictError, the sink is enabled, with exactly one WARNING line and no
\* CRITICAL line.
C7_ConflictIsSuccess ==
    \A p \in Producers :
        (ExistsReturnedFalse(p) /\ CreateRaised(p, {"ConflictError"})) =>
            /\ pc[p] = "ready"
            /\ EsAtConstruction(p) = Live
            /\ Cardinality(ReportsAt(p, 0, "WARNING")) = 1
            /\ ReportsAt(p, 0, "CRITICAL") = {}

C7_Witness ==
    /\ ExistsReturnedFalse(App)
    /\ CreateRaised(App, {"ConflictError"})
    /\ es[App] = Live

\* C8: when all producers have constructed their sink against a backend that
\* answered every call (reachable, authorized: no call failed), then under
\* every interleaving of their exists and create calls every producer is
\* enabled, the index exists and no producer wrote a CRITICAL line.
BackendAnswered(p) ==
    \A k \in AllCallsAt(p, 0) : calls[p][k].outcome = "ok"

C8_RacingBootstrapIsSafe ==
    (\A p \in Producers : pc[p] = "ready" /\ BackendAnswered(p)) =>
        /\ indexExists
        /\ \A p \in Producers :
              /\ EsAtConstruction(p) = Live
              /\ ReportsAt(p, 0, "CRITICAL") = {}

\* every producer found the index missing, one created it, the others raced
C8_Witness ==
    /\ \A p \in Producers :
          /\ pc[p] = "ready" /\ BackendAnswered(p)
          /\ ExistsReturnedFalse(p)
          /\ CallsAt(p, 0, "create") # {}
    /\ \E p \in Producers : CreateRaised(p, {"None"})
    /\ \E p \in Producers : CreateRaised(p, {"ConflictError"})

\* C9: a Close on an enabled sink leaves the sink disabled and lets no
\* exception out, whatever the backend close call does.
C9_CloseAlwaysDisables ==
    \A p \in Producers : \A i \in Indices(p) :
        (ops[p][i].op = "close" /\ ops[p][i].pre = Live) =>
            /\ ops[p][i].post = None
            /\ ops[p][i].raised = "none"

\* C10: a Close on a sink that is already disabled makes no backend call,
\* writes nothing, raises nothing and leaves the sink disabled; so a Close
\* right after a Close that disabled the sink changes nothing.
C10_CloseIsIdempotent ==
    \A p \in Producers : \A i \in Indices(p) :
        (ops[p][i].op = "close" /\ ops[p][i].pre = None) =>
            /\ AllCallsAt(p, i) = {}
            /\ AllReportsAt(p, i) = {}
            /\ ops[p][i].raised = "none"
            /\ ops[p][i].post = None
            /\ EsAfter(p, i) = None

C10_Witness ==
    /\ Len(ops[App]) >= 2
    /\ ops[App][1].op = "close" /\ ops[App][1].pre = Live
    /\ ops[App][2].op = "close" /\ ops[App][2].pre = None
    /\ Cardinality({k \in DOMAIN calls[App] : calls[App][k].method = "close"}) = 1

\* C11: for a sink the constructor left enabled, once Close has been called
\* the backend close was invoked exactly once, in the first Close, also when
\* that backend close call failed.
CloseOps(p) == {i \in Indices(p) : ops[p][i].op = "close"}

CloseCalls(p) == {k \in DOMAIN calls[p] : calls[p][k].method = "close"}

C11_ConnectionReleasedOnce ==
    \A p \in Producers :
        (EsAtConstruction(p) = Live /\ CloseOps(p) # {}) =>
            /\ Cardinality(CloseCalls(p)) = 1
            /\ \A k \in CloseCalls(p) : \A i \in CloseOps(p) : calls[p][k].at <= i

\* C12: Flush makes no backend call, writes nothing to the console, raises
\* nothing and leaves self.es as it was, enabled or disabled.
C12_FlushIsNoOp ==
    \A p \in Producers : \A i \in Indices(p) :
        ops[p][i].op = "flush" =>
            /\ AllCallsAt(p, i) = {}
            /\ AllReportsAt(p, i) = {}
            /\ ops[p][i].raised = "none"
            /\ ops[p][i].post = ops[p][i].pre
            /\ EsAfter(p, i) = ops[p][i].pre

C12_Witness ==
    /\ Len(ops[App]) >= 2
    /\ ops[App][1].op = "flush" /\ ops[App][1].pre = Live
    /\ ops[App][2].op = "emit" /\ CallsAt(App, 2, "index") # {}

\* C13: a constructor call that lacks any of the four required keys raises
\* ValueError: no handler is produced (self.es is never assigned) and no
\* backend call is made, then or later.
C13_ConstructionValidation ==
    /\ [](\A p \in Producers :
            pc[p] = "ValueError" =>
                es[p] = Unset /\ calls[p] = <<>> /\ console[p] = <<>> /\ ops[p] = <<>>)
    /\ [][\A p \in Producers : \A kwargs \in SUBSET RequiredKeys :
            (kwargs # RequiredKeys /\ Construct(p, kwargs)) =>
                /\ pc'[p] = "ValueError"
                /\ es'[p] = Unset
                /\ calls'[p] = <<>>]_vars

C13_Witness ==
    /\ pc[App] = "ValueError"
    /\ \E p \in Producers : pc[p] = "ready" /\ calls[p] # <<>>

\* C17: the constructor makes exactly one existence check, and calls create
\* (once) if and only if that check answered false; when it answered true the
\* sink is enabled, create was not called and nothing was written.
ExistsReturnedTrue(p) ==
    \E k \in CallsAt(p, 0, "exists") : calls[p][k].result = "True"

C17_CheckThenCreate ==
    \A p \in Producers :
        pc[p] = "ready" =>
            /\ Cardinality(CallsAt(p, 0, "exists")) = 1
            /\ Cardinality(CallsAt(p, 0, "create")) =
                   (IF ExistsReturnedFalse(p) THEN 1 ELSE 0)
            /\ ExistsReturnedTrue(p) =>
                   /\ EsAtConstruction(p) = Live
                   /\ AllReportsAt(p, 0) = {}

C17_Witness ==
    /\ pc[App] = "ready" /\ ExistsReturnedTrue(App)
    /\ \E p \in Producers : pc[p] = "ready" /\ CallsAt(p, 0, "create") # {}

\* C18: an emit makes at most one submit call, also when the submit fails
\* and is reported; the submit calls never outnumber the emits.
EmitOps(p) == {i \in Indices(p) : ops[p][i].op = "emit"}

SubmitCalls(p) == {k \in DOMAIN calls[p] : calls[p][k].method = "index"}

C18_EmitNeverRetries ==
    \A p \in Producers :
        /\ \A i \in EmitOps(p) : Cardinality(CallsAt(p, i, "index")) <= 1
        /\ \A i \in Indices(p) \ EmitOps(p) : CallsAt(p, i, "index") = {}
        /\ Cardinality(SubmitCalls(p)) <= Cardinality(EmitOps(p))

C18_Witness ==
    /\ Len(ops[App]) >= 2
    /\ \A i \in {1, 2} :
          /\ ops[App][i].op = "emit" /\ SubmitFailedAt(App, i)
          /\ ReportsAt(App, i, "CRITICAL") # {}
    /\ Cardinality(SubmitCalls(App)) = 2

\* C19: when the constructor has returned, the sink is disabled exactly when
\* one CRITICAL line was written during bootstrap, an enabled sink wrote no
\* CRITICAL line, and bootstrap wrote at most one line in all.
C19_DisabledIffOneCritical ==
    \A p \in Producers :
        pc[p] = "ready" =>
            /\ (EsAtConstruction(p) = None) = (Cardinality(ReportsAt(p, 0, "CRITICAL")) = 1)
            /\ EsAtConstruction(p) = Live => ReportsAt(p, 0, "CRITICAL") = {}
            /\ Cardinality(AllReportsAt(p, 0)) <= 1

C19_Witness ==
    /\ \A p \in Producers : pc[p] = "ready"
    /\ EsAtConstruction(App) = None
    /\ \E p \in Producers : EsAtConstruction(p) = Live /\ ReportsAt(p, 0, "WARNING") # {}

\* C14: when the first of a logger's two handlers raises while handling a
\* record, the second handler is still handed the record and the log call
\* does not raise.
C14_DispatchIsolation ==
    \A j \in DOMAIN logged :
        logger.handlers[1] \in logged[j].threw =>
            /\ logger.handlers[2] \in logged[j].delivered
            /\ logged[j].raised = "none"

\* C15: with the stdout handler added before the sink, every log call at or
\* above the logger's level (of a record whose message can be formatted)
\* writes exactly one console line for the record, whether the sink is
\* enabled, disabled by bootstrap, closed or failing on submit; a failed
\* submit adds exactly one CRITICAL line, and nothing else is ever added.
ExtraOutput(j) ==
    IF logged[j].at = 0 THEN {} ELSE AllReportsAt(App, logged[j].at)

C20_CloseEmitRaceFree ==
    /\ \A k1 \in DOMAIN calls[App] : \A k2 \in DOMAIN calls[App] :
          (k1 < k2 /\ calls[App][k1].method = "close") =>
              calls[App][k2].method # "index"
    /\ \A i \in Indices(App) : ops[App][i].raised = "none"
    /\ \A i \in EmitOps(App) :
          ReportsAt(App, i, "CRITICAL") # {} => SubmitFailedAt(App, i)

====
